---------------------------- MODULE Spec2Model ----------------------------
(***************************************************************************)
(* A model of the parsing pipeline of cli-step-by-step-guide-visualiser:   *)
(*   - parseShellCodeBlock(), the tokenizer of shell-transcript code       *)
(*     blocks (lib/parse-shell-code-block.mjs);                            *)
(*   - tokenToNode() / parseRawMarkdown(), the transformer of `marked`     *)
(*     tokens into markdown nodes (lib/parse-raw-markdown.mjs).            *)
(*                                                                         *)
(* JavaScript strings are modelled as sequences of one-character strings,  *)
(* so that slicing, trimming and prefix tests are computed, not assumed.   *)
(***************************************************************************)
EXTENDS Integers, Sequences, FiniteSets, TLC

VARIABLES
    codeBlock,   \* parseShellCodeBlock: the argument, a sequence of characters
    pc,          \* parseShellCodeBlock: position in the function body
    lines,       \* parseShellCodeBlock: `lines`, after the blank-line stripping
    i,           \* parseShellCodeBlock: index (1-based) of the next line of the walk
    result,      \* parseShellCodeBlock: `result`; `current` is its last element
    error,       \* parseShellCodeBlock: the Error thrown, <<>> when none
    frontmatter, \* parseRawMarkdown: the attributes the front-matter parser gave,
                 \* a set of <<key, value>> pairs
    markedTokens,\* parseRawMarkdown: the token list the `marked` lexer gave
    mdPc,        \* parseRawMarkdown: "call", "returned" or "thrown"
    mdNodes,     \* parseRawMarkdown: the node list returned
    mdError,     \* parseRawMarkdown: the Error thrown, <<>> when none
    filePath,    \* visualise.js: process.argv[2]
    disk,        \* visualise.js: the paths readFileSync() finds a file at
    fileBlocks,  \* visualise.js: the fenced code blocks of the markdown file
    fileAttributes, \* visualise.js: the front-matter attributes of the file
    cliPc,       \* visualise.js: position in the script
    exitStatus,  \* visualise.js: exit status of the process, -1 while it runs
    filesRead,   \* visualise.js: the paths read so far, in order
    filesWritten,\* visualise.js: the paths written so far, in order
    actualFrontmatter, \* visualise.js: `actualFrontmatter`
    validFrontmatter,  \* visualise.js: the validated `frontmatter` object
    shBlock,     \* shCodeBlockToArray: the argument, a sequence of characters
    shPc,        \* shCodeBlockToArray: "call", "returned" or "thrown"
    shResult,    \* shCodeBlockToArray: the array returned
    shError,     \* shCodeBlockToArray: the Error thrown, <<>> when none
    plugins,     \* parse-raw-markdown.mjs: the plugins added to `hljs`
    calls        \* the calls of the two parsers made so far, with their outcomes

shellVars == <<codeBlock, pc, lines, i, result, error>>

mdVars == <<frontmatter, markedTokens, mdPc, mdNodes, mdError>>

cliVars == <<filePath, disk, fileBlocks, fileAttributes, cliPc, exitStatus,
             filesRead, filesWritten, actualFrontmatter, validFrontmatter>>

legacyVars == <<shBlock, shPc, shResult, shError>>

sessionVars == <<plugins, calls>>

vars == <<codeBlock, pc, lines, i, result, error,
          frontmatter, markedTokens, mdPc, mdNodes, mdError,
          filePath, disk, fileBlocks, fileAttributes, cliPc, exitStatus,
          filesRead, filesWritten, actualFrontmatter, validFrontmatter,
          shBlock, shPc, shResult, shError, plugins, calls>>

----------------------------------------------------------------------------
(* Bounds of the model.                                                    *)

\* Longest input, in lines, drawn from the full line alphabet RichLines.
MaxLines == 4

\* Longest input, in lines, drawn from the three-line alphabet CoreLines.
MaxCoreLines == 7

----------------------------------------------------------------------------
(* Strings.                                                                *)

\* The characters String.prototype.trim / trimEnd / trimStart remove.
WhiteSpace == {" ", "\t", "\r", "\n"}

\* s.startsWith(p)
startsWith(s, p) == Len(s) >= Len(p) /\ SubSeq(s, 1, Len(p)) = p

\* s.slice(n), n >= 0: the characters from 0-based index n on.
sliceFrom(s, n) == SubSeq(s, n + 1, Len(s))

\* s.slice(a, b), 0 <= a <= b: the characters from 0-based index a up to,
\* not including, index b; b is clipped to the length.
slice(s, a, b) == SubSeq(s, a + 1, IF b > Len(s) THEN Len(s) ELSE b)

RECURSIVE trimEnd(_)
trimEnd(s) ==
    IF s # <<>> /\ s[Len(s)] \in WhiteSpace
    THEN trimEnd(SubSeq(s, 1, Len(s) - 1))
    ELSE s

RECURSIVE trimStart(_)
trimStart(s) ==
    IF s # <<>> /\ s[1] \in WhiteSpace
    THEN trimStart(Tail(s))
    ELSE s

trim(s) == trimStart(trimEnd(s))

RECURSIVE splitFrom(_, _, _, _)
splitFrom(s, k, cur, acc) ==
    IF k > Len(s) THEN Append(acc, cur)
    ELSE IF s[k] = "\n" THEN splitFrom(s, k + 1, <<>>, Append(acc, cur))
    ELSE IF s[k] = "\r" /\ k < Len(s) /\ s[k + 1] = "\n"
         THEN splitFrom(s, k + 2, <<>>, Append(acc, cur))
    ELSE splitFrom(s, k + 1, Append(cur, s[k]), acc)

\* codeBlock.split(/\r?\n/)
splitLines(s) == splitFrom(s, 1, <<>>, <<>>)

----------------------------------------------------------------------------
(* parseShellCodeBlock(): the pieces of the function body.                 *)

\* The error messages, without the `parseShellCodeBlock():` prefix; the
\* interpolated words are kept as separate elements.
ErrFirstLine == <<"First non-empty line must be commented \"# ...\"">>
ErrAmbiguous == <<"All description and output lines with text must start \"# \"">>
ErrEmptyLine(afterOrBefore, kind) == <<"Unexpected empty line", afterOrBefore, kind>>
ErrUncommented(kind) == <<"Unexpected uncommented line in", kind>>
ErrTrailing(kind) == <<"Last non-empty line must be output not", kind>>

\* First loop: right-trim every line and skip the leading empty ones.
skipLeadingAlways(rawLines) ==
    [k \in 1..Len(rawLines) |-> trimEnd(rawLines[k])]

skipLeading(rawLines) ==
    LET t == [k \in 1..Len(rawLines) |-> trimEnd(rawLines[k])]
        nonEmpty == {k \in 1..Len(t) : t[k] # <<>>}
    IN  IF nonEmpty = {} THEN <<>>
        ELSE SubSeq(t, CHOOSE k \in nonEmpty : \A m \in nonEmpty : k <= m, Len(t))

spliceTrailingNever(ls) == ls

\* Second loop: splice off everything after the last non-empty line.
spliceTrailing(ls) ==
    LET nonEmpty == {k \in 1..Len(ls) : ls[k] # <<>>}
    IN  IF nonEmpty = {} THEN ls
        ELSE SubSeq(ls, 1, CHOOSE k \in nonEmpty : \A m \in nonEmpty : k >= m)

\* line.startsWith('# ') || line === '#'
startsWithHashOnly(line) == startsWith(line, <<"#">>)

isComment(line) == startsWith(line, <<"#", " ">>) \/ line = <<"#">>

\* line.trimStart().startsWith('#')
isAmbiguousNoTrim(line) == startsWith(line, <<"#">>)

isAmbiguous(line) == startsWith(trimStart(line), <<"#">>)

\* line.slice(2).trim()
commentTextNoTrim(line) == sliceFrom(line, 2)

commentText(line) == trim(sliceFrom(line, 2))

\* current.kind === 'output', the test of the empty-line branch
emptyLineEndsNotDescription(kind) == kind # "description"

emptyLineEnds(kind) == kind = "output"

\* current.kind !== 'output' is what the final test throws on
trailingOkAny(kind) == TRUE

trailingOkNotDescription(kind) == kind # "description"

trailingOk(kind) == kind = "output"

Token(kind, ls) == [kind |-> kind, lines |-> ls]

\* `current` is always the token pushed last.
current == result[Len(result)]

\* current.lines.push(x)
pushLine(res, x) ==
    [res EXCEPT ![Len(res)].lines = Append(@, x)]

\* The outcome of one iteration of the loop over `lines`, as a record:
\* either the new `result`, or the error thrown.
Ok(res) == [thrown |-> FALSE, result |-> res, error |-> <<>>]
Throw(res, err) == [thrown |-> TRUE, result |-> res, error |-> err]

\* the branch for a well formatted comment line
commentLineNewOutput(res, line) ==
    IF res[Len(res)].kind # "description"
    THEN Ok(Append(res, Token("output", <<commentText(line)>>)))
    ELSE Ok(pushLine(res, commentText(line)))

commentLine(res, line) ==
    IF res[Len(res)].kind = "command"
    THEN Ok(Append(res, Token("output", <<commentText(line)>>)))
    ELSE Ok(pushLine(res, commentText(line)))

\* current.lines.length ? 'after' : 'before'
afterAlways(token) == "after"

afterOrBefore(token) == IF Len(token.lines) # 0 THEN "after" ELSE "before"

\* the branch for an empty line
emptyLine(res) ==
    IF emptyLineEnds(res[Len(res)].kind)
    THEN Ok(Append(res, Token("description", <<>>)))
    ELSE Throw(res, ErrEmptyLine(afterOrBefore(res[Len(res)]),
                                 res[Len(res)].kind))

\* the branch that records a command line
commandLineLenient(res, line) ==
    IF res[Len(res)].kind = "command" THEN Ok(pushLine(res, line))
    ELSE Ok(Append(res, Token("command", <<line>>)))

commandLine(res, line) ==
    IF res[Len(res)].kind = "command" THEN Ok(pushLine(res, line))
    ELSE IF res[Len(res)].kind = "description"
         THEN Ok(Append(res, Token("command", <<line>>)))
    ELSE Throw(res, ErrUncommented(res[Len(res)].kind))

\* the body of `for (const line of lines)`
walkLine(res, line) ==
    IF isComment(line) THEN commentLine(res, line)
    ELSE IF isAmbiguous(line) THEN Throw(res, ErrAmbiguous)
    ELSE IF line = <<>> THEN emptyLine(res)
    ELSE commandLine(res, line)

----------------------------------------------------------------------------
(* The inputs of parseShellCodeBlock().                                    *)

\* Lines that cover each class the function distinguishes: empty, blank
\* with a carriage return, bare hash, comment with inner and trailing
\* whitespace, hash without space, hash and tab, hash after whitespace,
\* command, command with leading and trailing whitespace.
RichLines == {
    <<>>,
    <<" ", "\r">>,
    <<"#">>,
    <<"#", " ", " ", "a", " ", "\r">>,
    <<"#", "a">>,
    <<"#", "\t", "a">>,
    <<"\t", "#", " ", "a">>,
    <<"c">>,
    <<" ", "c", "\t">> }

CoreLines == { <<>>, <<"#">>, <<"c">> }

SeqsUpTo(S, n) == UNION { [1..m -> S] : m \in 0..n }

RECURSIVE joinLines(_)
joinLines(ls) ==
    IF ls = <<>> THEN <<>>
    ELSE IF Len(ls) = 1 THEN ls[1]
    ELSE ls[1] \o <<"\n">> \o joinLines(Tail(ls))

CodeBlocks ==
    { joinLines(ls) : ls \in SeqsUpTo(RichLines, MaxLines) \cup
                             SeqsUpTo(CoreLines, MaxCoreLines) }

----------------------------------------------------------------------------
(* parseShellCodeBlock() as a state machine.                               *)

\* No call of parseRawMarkdown() is under way.
MdIdle ==
    /\ frontmatter = {}
    /\ markedTokens = <<>>
    /\ mdPc = "idle"
    /\ mdNodes = <<>>
    /\ mdError = <<>>

\* No call of parseShellCodeBlock() is under way.
ShellIdle ==
    /\ codeBlock = <<>>
    /\ pc = "idle"
    /\ lines = <<>>
    /\ i = 1
    /\ result = <<>>
    /\ error = <<>>

\* No call of shCodeBlockToArray() is under way.
LegacyIdle ==
    /\ shBlock = <<>>
    /\ shPc = "idle"
    /\ shResult = <<>>
    /\ shError = <<>>

\* The module parse-raw-markdown.mjs is not loaded, no call was made.
SessionIdle ==
    /\ plugins = <<>>
    /\ calls = <<>>

\* No run of visualise.js is under way.
CliIdle ==
    /\ filePath = [typeof |-> "undefined"]
    /\ disk = {}
    /\ fileBlocks = <<>>
    /\ fileAttributes = {}
    /\ cliPc = "idle"
    /\ exitStatus = -1
    /\ filesRead = <<>>
    /\ filesWritten = <<>>
    /\ actualFrontmatter = {}
    /\ validFrontmatter = {}

ShellInit ==
    /\ codeBlock \in CodeBlocks
    /\ pc = "split"
    /\ lines = <<>>
    /\ i = 1
    /\ result = <<>>
    /\ error = <<>>
    /\ MdIdle
    /\ CliIdle
    /\ LegacyIdle
    /\ SessionIdle

\* Split into lines, strip the blank lines of both ends, return [] when
\* nothing is left.
SplitAndStrip ==
    /\ pc = "split"
    /\ lines' = spliceTrailing(skipLeading(splitLines(codeBlock)))
    /\ pc' = IF Len(lines') = 0 THEN "returned" ELSE "first"
    /\ UNCHANGED <<codeBlock, i, result, error, mdVars, cliVars, legacyVars, sessionVars>>

\* The test of the first line, and the initial `result` and `current`.
CheckFirstLine ==
    /\ pc = "first"
    /\ IF ~isComment(lines[1])
       THEN /\ pc' = "thrown"
            /\ error' = ErrFirstLine
            /\ UNCHANGED result
       ELSE /\ pc' = "walk"
            /\ result' = <<Token("description", <<>>)>>
            /\ UNCHANGED error
    /\ UNCHANGED <<codeBlock, lines, i, mdVars, cliVars, legacyVars, sessionVars>>

\* One iteration of the loop over `lines`.
WalkLine ==
    /\ pc = "walk"
    /\ i <= Len(lines)
    /\ LET out == walkLine(result, lines[i])
       IN  /\ result' = out.result
           /\ error' = out.error
           /\ pc' = IF out.thrown THEN "thrown" ELSE "walk"
    /\ i' = IF pc' = "thrown" THEN i ELSE i + 1
    /\ UNCHANGED <<codeBlock, lines, mdVars, cliVars, legacyVars, sessionVars>>

\* After the loop: the last token must be an output.
Finish ==
    /\ pc = "walk"
    /\ i > Len(lines)
    /\ IF ~trailingOk(current.kind)
       THEN /\ pc' = "thrown"
            /\ error' = ErrTrailing(current.kind)
       ELSE /\ pc' = "returned"
            /\ UNCHANGED error
    /\ UNCHANGED <<codeBlock, lines, i, result, mdVars, cliVars, legacyVars, sessionVars>>

ShellNext == SplitAndStrip \/ CheckFirstLine \/ WalkLine \/ Finish

ShellSpec == ShellInit /\ [][ShellNext]_vars


----------------------------------------------------------------------------
(* Properties of parseShellCodeBlock().                                    *)

Returned == pc = "returned"
Thrown == pc = "thrown"

\* The lines of the argument, as the caller sees them.
rawLines == splitLines(codeBlock)

\* The right-trimmed, non-blank lines of the argument, in order.
nonBlankLines ==
    SelectSeq([k \in 1..Len(rawLines) |-> trimEnd(rawLines[k])],
              LAMBDA l : l # <<>>)

\* The line the walk is about to process.
AtLine == pc = "walk" /\ i <= Len(lines)

\* The first character of `line` that is not whitespace is a hash.
FirstInkIsHash(line) ==
    \E k \in 1..Len(line) :
        /\ line[k] = "#"
        /\ \A m \in 1..(k - 1) : line[m] \in WhiteSpace

WellFormedComment(line) ==
    \/ line = <<"#">>
    \/ (Len(line) >= 2 /\ line[1] = "#" /\ line[2] = " ")

KindAt(k) ==
    CASE k % 3 = 0 -> "description"
      [] k % 3 = 1 -> "command"
      [] k % 3 = 2 -> "output"

\* C1: a non-empty returned list has a length that is a positive multiple
\* of 3, its token at 0-based index k has the kind description, command or
\* output according to k mod 3, it starts with a description and ends with
\* an output.
C1_KindsCycle ==
    (Returned /\ result # <<>>) =>
        /\ Len(result) % 3 = 0
        /\ \A k \in 1..Len(result) : result[k].kind = KindAt(k - 1)
        /\ result[1].kind = "description"
        /\ result[Len(result)].kind = "output"

\* A returned list of two triples.
C1_Witness == Returned /\ Len(result) = 6

\* C2: the empty list is returned if and only if every line of the input
\* is empty once right-trimmed; an input with a non-blank line fails or
\* returns at least three tokens.
C2_EmptyIffBlank ==
    (Returned \/ Thrown) =>
        /\ (Returned /\ result = <<>>) <=> (nonBlankLines = <<>>)
        /\ (Returned /\ nonBlankLines # <<>>) => Len(result) >= 3

\* An input of several whitespace-only lines returned the empty list.
C2_Witness ==
    /\ Returned
    /\ result = <<>>
    /\ Len(rawLines) >= 2
    /\ \E k \in 1..Len(rawLines) : rawLines[k] # <<>>

\* C3: when the first non-blank line, right-trimmed, is neither `#` nor
\* begins with `# `, the call fails with the first-line error, whatever
\* blank lines precede it and whatever lines follow it.
C3_MissingLeadingComment ==
    ((Returned \/ Thrown) /\ nonBlankLines # <<>>
        /\ ~WellFormedComment(nonBlankLines[1]))
    => (Thrown /\ error = ErrFirstLine)

\* A `#text` first line, after a blank line and before further lines,
\* raised the first-line error.
C3_Witness ==
    /\ Thrown
    /\ error = ErrFirstLine
    /\ Len(rawLines) >= 3
    /\ trimEnd(rawLines[1]) = <<>>
    /\ nonBlankLines[1][1] = "#"
    /\ Len(nonBlankLines) >= 2

\* C4: an empty line reached by the walk is accepted only when the current
\* token is an output, and then a new, empty description token is pushed;
\* when the current token is a description or a command the call fails
\* with the unexpected-empty-line error.
C4_BlankLine ==
    [][ (AtLine /\ lines[i] = <<>>) =>
          IF current.kind = "output"
          THEN /\ pc' = "walk"
               /\ result' = Append(result, [kind |-> "description", lines |-> <<>>])
          ELSE /\ pc' = "thrown"
               /\ error' \in { <<"Unexpected empty line", w, current.kind>> :
                                 w \in {"after", "before"} }
      ]_vars

\* An empty line after a command line raised the error.
C4_Witness ==
    /\ Thrown
    /\ error = <<"Unexpected empty line", "after", "command">>
    /\ lines[i] = <<>>

\* C5: when the loop ends with a description or a command as the current
\* token, the call fails with the trailing-token error naming that kind;
\* a non-empty list is never returned unless its last token is an output.
C5_TrailingToken ==
    [][ /\ (pc = "walk" /\ i > Len(lines) /\ current.kind # "output")
            => (pc' = "thrown" /\ error' = ErrTrailing(current.kind))
        /\ (pc' = "returned" /\ result' # <<>>)
            => result'[Len(result')].kind = "output"
      ]_vars

\* Every line was accepted and the block ended in a command.
C5_Witness ==
    /\ Thrown
    /\ error = <<"Last non-empty line must be output not", "command">>
    /\ i > Len(lines)

\* C6: after the first line, a line whose first non-whitespace character
\* is a hash and that is no well-formed comment fails with the
\* ambiguous-comment error, whatever the kind of the current token.
C6_AmbiguousComment ==
    [][ (AtLine /\ i > 1 /\ FirstInkIsHash(lines[i])
            /\ ~WellFormedComment(lines[i]))
        => (pc' = "thrown" /\ error' = ErrAmbiguous)
      ]_vars

\* A hash preceded by whitespace raised the error inside an output.
C6_Witness ==
    /\ Thrown
    /\ error = ErrAmbiguous
    /\ current.kind = "output"
    /\ lines[i][1] \in WhiteSpace

\* What the walk does with an uncommented line, by the current kind.
UncommentedOutcome ==
    CASE current.kind = "description" ->
            /\ pc' = "walk"
            /\ result' = Append(result, [kind |-> "command", lines |-> <<lines[i]>>])
      [] current.kind = "command" ->
            /\ pc' = "walk"
            /\ result' = [result EXCEPT ![Len(result)].lines = Append(@, lines[i])]
      [] current.kind = "output" ->
            /\ pc' = "thrown"
            /\ error' = <<"Unexpected uncommented line in", "output">>

\* C7, as stated: every non-blank line whose first character is not a hash
\* starts a command (in a description), is appended (in a command) or
\* fails with unexpected-uncommented-line (in an output).
C7_Original ==
    [][ (AtLine /\ lines[i] # <<>> /\ lines[i][1] # "#") => UncommentedOutcome ]_vars

\* C7, amended: the same for every non-blank line whose first
\* non-whitespace character is not a hash.
C7_UncommentedLine ==
    [][ (AtLine /\ lines[i] # <<>> /\ ~FirstInkIsHash(lines[i]))
        => UncommentedOutcome ]_vars

\* A line with leading whitespace was appended to a command.
C7_Witness ==
    /\ pc = "walk"
    /\ current.kind = "command"
    /\ Len(current.lines) >= 2
    /\ current.lines[Len(current.lines)][1] \in WhiteSpace

RECURSIVE tokenLines(_)
\* The lines of a token list, in token order, each with whether it is a
\* command line.
tokenLines(res) ==
    IF res = <<>> THEN <<>>
    ELSE [k \in 1..Len(res[1].lines) |->
            [cmd |-> res[1].kind = "command", text |-> res[1].lines[k]]]
         \o tokenLines(Tail(res))

\* What the non-blank source lines should contribute.
expectedLines ==
    [k \in 1..Len(nonBlankLines) |->
        IF nonBlankLines[k][1] = "#"
        THEN [cmd |-> FALSE, text |-> trim(SubSeq(nonBlankLines[k], 3, Len(nonBlankLines[k])))]
        ELSE [cmd |-> TRUE, text |-> nonBlankLines[k]]]

----------------------------------------------------------------------------
(* tokenToNode(): the values it handles.                                   *)
(*                                                                         *)
(* A JavaScript value is a record with the field `typeof`: a string node   *)
(* is Str(chars), `undefined` (an index past the end of an array) is       *)
(* Undefined, `null` is Null, every other node is an object with a `kind`. *)
(* An exception is the record Raise(error), which every caller passes on.  *)

Str(chars) == [typeof |-> "string", value |-> chars]
Undefined == [typeof |-> "undefined"]
Null == [typeof |-> "null"]
Raise(err) == [typeof |-> "throw", error |-> err]

\* The outcome of a map that did not throw: the array it built.
Array(items) == [typeof |-> "array", items |-> items]

IsThrow(v) == v.typeof = "throw"

\* Boolean(v), for the values a node list can hold: null and the empty
\* string are falsy.
Truthy(v) ==
    /\ v.typeof # "null"
    /\ ~(v.typeof = "string" /\ v.value = <<>>)

\* array[0], `undefined` when the array is empty
first(array) == IF array = <<>> THEN Undefined ELSE array[1]

\* array.slice(1)
rest(array) == IF array = <<>> THEN <<>> ELSE Tail(array)

ErrUnsupportedToken(kind) == <<"Unsupported token type", kind>>
ErrInvalidAlert(severity) == <<"Invalid alert type", severity>>

UpperCase == <<"A", "B", "C", "D", "E", "F", "G", "H", "I", "J", "K", "L", "M",
               "N", "O", "P", "Q", "R", "S", "T", "U", "V", "W", "X", "Y", "Z">>
LowerCase == <<"a", "b", "c", "d", "e", "f", "g", "h", "i", "j", "k", "l", "m",
               "n", "o", "p", "q", "r", "s", "t", "u", "v", "w", "x", "y", "z">>

\* String.prototype.toLowerCase
toLowerCase(s) ==
    [k \in 1..Len(s) |->
        IF \E n \in 1..26 : UpperCase[n] = s[k]
        THEN LowerCase[CHOOSE n \in 1..26 : UpperCase[n] = s[k]]
        ELSE s[k]]

\* s.indexOf('\n'), 0-based, -1 when there is none
indexOfNewline(s) ==
    LET at == {k \in 1..Len(s) : s[k] = "\n"}
    IN  IF at = {} THEN -1
        ELSE (CHOOSE k \in at : \A m \in at : k <= m) - 1

\* The labels of the regular expression of the alert marker.
AlertLabels == {
    <<"C", "A", "U", "T", "I", "O", "N">>,
    <<"I", "M", "P", "O", "R", "T", "A", "N", "T">>,
    <<"N", "O", "T", "E">>,
    <<"T", "I", "P">>,
    <<"W", "A", "R", "N", "I", "N", "G">> }

\* The cases of the `switch (severity)`.
Severities == {
    <<"c", "a", "u", "t", "i", "o", "n">>,
    <<"i", "m", "p", "o", "r", "t", "a", "n", "t">>,
    <<"n", "o", "t", "e">>,
    <<"t", "i", "p">>,
    <<"w", "a", "r", "n", "i", "n", "g">> }

\* The same match with the `i` flag.
matchAlertTypeIgnoreCase(raw) ==
    { l \in AlertLabels :
        /\ startsWith(toLowerCase(raw), toLowerCase(l \o <<"]">>))
        /\ \A k \in (Len(l) + 2)..Len(raw) : raw[k] \in WhiteSpace }

\* The same match without the `\s*$` that anchors it to the end.
matchAlertTypeUnanchored(raw) ==
    { l \in AlertLabels : startsWith(raw, l \o <<"]">>) }

\* rawAlertType.match(/^(CAUTION|IMPORTANT|NOTE|TIP|WARNING)\]\s*$/): the
\* set of the labels that match, empty when the match is null.
matchAlertType(raw) ==
    { l \in AlertLabels :
        /\ startsWith(raw, l \o <<"]">>)
        /\ \A k \in (Len(l) + 2)..Len(raw) : raw[k] \in WhiteSpace }

\* firstSubSubnode.slice(2, newlinePos === -1 ? undefined : newlinePos)
rawAlertTypeOf(s, newlinePos) ==
    IF newlinePos = -1 THEN sliceFrom(s, 2) ELSE slice(s, 2, newlinePos)

\* firstSubSubnode.slice(newlinePos + 1), the text directly after the
\* alert type
textAfterKeepNewline(s, newlinePos) == sliceFrom(s, newlinePos)

textAfter(s, newlinePos) == sliceFrom(s, newlinePos + 1)

\* remainingSubSubnodes, after the `shift()` of a leading line break
remainingAfterShift(subnodes) ==
    LET remaining == rest(subnodes)
    IN  IF first(remaining).typeof # "object" \/ first(remaining).kind = "br"
        THEN rest(remaining)
        ELSE remaining

\* `node` as the lines between its construction and a `return node` leave
\* it: `slice(1)` copies the sub-items of the first paragraph, so the
\* `shift()` never reaches `firstSubnode.subnodes`.
nodeShiftedInPlace(node) ==
    LET firstSubnode == first(node.subnodes)
    IN  IF firstSubnode.subnodes = <<>> THEN node
        ELSE [node EXCEPT !.subnodes =
                << [firstSubnode EXCEPT !.subnodes =
                        <<first(firstSubnode.subnodes)>>
                        \o remainingAfterShift(firstSubnode.subnodes)] >>
                \o rest(node.subnodes)]

nodeAfterShift(node) == node

\* case 'blockquote', after `node` is built from the transformed children
blockquoteNode(node) ==
    LET firstSubnode == first(node.subnodes)
    IN
    IF firstSubnode.typeof # "object" \/ firstSubnode.kind # "paragraph" THEN node
    ELSE
    LET firstSubSubnode == first(firstSubnode.subnodes)
        remainingSubSubnodes == remainingAfterShift(firstSubnode.subnodes)
    IN
    IF firstSubSubnode.typeof # "string"
        \/ slice(firstSubSubnode.value, 0, 2) # <<"[", "!">> THEN nodeAfterShift(node)
    ELSE
    LET newlinePos == indexOfNewline(firstSubSubnode.value)
        rawAlertType == rawAlertTypeOf(firstSubSubnode.value, newlinePos)
        matches == matchAlertType(rawAlertType)
    IN
    IF matches = {} THEN nodeAfterShift(node)
    ELSE
    LET severity == toLowerCase(CHOOSE l \in matches : TRUE)
    IN
    IF severity \in Severities
    THEN [typeof |-> "object", kind |-> "alert", severity |-> severity,
          subnodes |->
            << [typeof |-> "object", kind |-> "paragraph",
                subnodes |->
                    (IF newlinePos = -1 THEN <<>>
                     ELSE <<Str(textAfter(firstSubSubnode.value, newlinePos))>>)
                    \o remainingSubSubnodes] >>
            \o rest(node.subnodes)]
    ELSE Raise(ErrInvalidAlert(severity))

\* parseShellCodeBlock(codeBlock) as the function tokenToNode() calls: the
\* same steps as the state machine above, run to the end.
RECURSIVE walkLines(_, _, _)
RECURSIVE walkOn(_, _, _)

\* The for loop from line `k` on, `res` being the result so far.
walkLines(res, ls, k) ==
    IF k > Len(ls) THEN Ok(res) ELSE walkOn(walkLine(res, ls[k]), ls, k)

\* After the pass over line `k`: the exception leaves the loop.
walkOnPastErrors(out, ls, k) ==
    IF out.thrown /\ k = Len(ls) THEN out ELSE walkLines(out.result, ls, k + 1)

walkOn(out, ls, k) ==
    IF out.thrown THEN out ELSE walkLines(out.result, ls, k + 1)

\* The check of the trailing token, and the return.
walkEnd(out) ==
    IF out.thrown THEN Raise(out.error)
    ELSE IF ~trailingOk(out.result[Len(out.result)].kind)
         THEN Raise(ErrTrailing(out.result[Len(out.result)].kind))
         ELSE Array(out.result)

\* The function from the stripped lines on.
parseLines(ls) ==
    IF Len(ls) = 0 THEN Array(<<>>)
    ELSE IF ~isComment(ls[1]) THEN Raise(ErrFirstLine)
    ELSE walkEnd(walkLines(<<Token("description", <<>>)>>, ls, 1))

parseShellCodeBlock(text) ==
    parseLines(spliceTrailing(skipLeading(splitLines(text))))

\* hljs.highlight(text, { language }).value: the span list the highlighter
\* builds is its own business; the model keeps what one call was given.
highlight(text, language) ==
    [typeof |-> "hljs", text |-> text, language |-> language]

\* new Set(['bash', 'console', 'fish', 'shell', 'sh', 'zsh']).has(language)
isShellLanguageAlways(language) == TRUE

isShellLanguage(language) ==
    language \in {"bash", "console", "fish", "shell", "sh", "zsh"}

\* token.lang || 'plaintext': an absent and an empty `lang` are falsy.
codeLanguage(token) ==
    IF "lang" \in DOMAIN token /\ token.lang # "" THEN token.lang ELSE "plaintext"

\* lines.join('\n')
joinedLines(ls) == joinLines(ls)

\* the callback of parseShellCodeBlock(token.text).map(...)
shellSubnodeHighlightAll(subnode, language) ==
    [kind |-> subnode.kind,
     subnodes |-> highlight(joinedLines(subnode.lines), language)]

shellSubnode(subnode, language) ==
    IF subnode.kind # "command" THEN subnode
    ELSE [kind |-> subnode.kind,
          subnodes |-> highlight(joinedLines(subnode.lines), language)]

\* case 'code', for a shell language: `parsed` is what
\* parseShellCodeBlock(token.text) gave.
shellCodeNode(language, parsed) ==
    IF IsThrow(parsed) THEN parsed
    ELSE [typeof |-> "object", kind |-> "code", language |-> language,
          subnodes |-> [k \in 1..Len(parsed.items) |->
                            shellSubnode(parsed.items[k], language)]]

\* case 'code', once the language is known
codeNodeIn(token, language) ==
    IF ~isShellLanguage(language)
    THEN [typeof |-> "object", kind |-> "code", language |-> language,
          subnodes |-> highlight(token.text, language)]
    ELSE shellCodeNode(language, parseShellCodeBlock(token.text))

\* case 'code'
codeNode(token) == codeNodeIn(token, codeLanguage(token))

\* s.endsWith(p)
endsWith(s, p) ==
    Len(s) >= Len(p) /\ SubSeq(s, Len(s) - Len(p) + 1, Len(s)) = p

\* text.startsWith('<!--') && text.endsWith('-->')
isHtmlComment(text) ==
    /\ startsWith(text, <<"<", "!", "-", "-">>)
    /\ endsWith(text, <<"-", "-", ">">>)

\* case 'html'
htmlNode(token) ==
    IF isHtmlComment(token.text)
    THEN [typeof |-> "object", kind |-> "comment",
          subnodes |-> <<Str(trim(SubSeq(token.text, 5, Len(token.text) - 3)))>>]
    ELSE IF token.block
         THEN [typeof |-> "object", block |-> token.block, kind |-> "html",
               pre |-> token.pre, subnodes |-> <<Str(token.text)>>]
         ELSE [typeof |-> "object", block |-> token.block, kind |-> "html",
               subnodes |-> <<Str(token.text)>>]

\* case 'image', case 'link', once the children are transformed
linkNode(token, subnodes) ==
    IF "title" \in DOMAIN token /\ token.title # ""
    THEN [typeof |-> "object", kind |-> token.type, href |-> token.href,
          title |-> token.title, subnodes |-> subnodes]
    ELSE [typeof |-> "object", kind |-> token.type, href |-> token.href,
          subnodes |-> subnodes]

\* The first exception among the outcomes `outs`, in order; each outcome is
\* an Array(...) or a Raise(...).
firstThrow(outs) ==
    LET thrown == {k \in 1..Len(outs) : IsThrow(outs[k])}
    IN  outs[CHOOSE k \in thrown : \A m \in thrown : k <= m]

anyThrow(outs) == \E k \in 1..Len(outs) : IsThrow(outs[k])

\* The token types whose case is `{ kind, subnodes: token.tokens.map(...) }`.
ContainerTypes == {"del", "em", "list_item", "paragraph", "strong"}

RECURSIVE tokenToNode(_)
RECURSIVE mapTokens(_)
RECURSIVE mapCells(_)

\* tokens.map(tokenToNode).filter(Boolean), with the exceptions kept out
\* of the way: a token that throws is dropped like a falsy node.
mapTokensSkipFailed(tokens) ==
    LET nodes == [k \in 1..Len(tokens) |-> tokenToNode(tokens[k])]
    IN  Array(SelectSeq(nodes, LAMBDA n : ~IsThrow(n) /\ Truthy(n)))

\* tokens.map(tokenToNode).filter(Boolean); the first exception raised by
\* a token, in order, ends the whole map.
mapTokens(tokens) ==
    LET nodes == [k \in 1..Len(tokens) |-> tokenToNode(tokens[k])]
        thrown == {k \in 1..Len(nodes) : IsThrow(nodes[k])}
    IN  IF thrown # {}
        THEN nodes[CHOOSE k \in thrown : \A m \in thrown : k <= m]
        ELSE Array(SelectSeq(nodes, Truthy))

\* cells.map(({ tokens }) => ({ kind: 'table_cell', subnodes: ... })), for
\* the header and for each row of a table
mapCells(cells) ==
    LET outs == [k \in 1..Len(cells) |-> mapTokens(cells[k].tokens)]
    IN  IF anyThrow(outs) THEN firstThrow(outs)
        ELSE Array([k \in 1..Len(cells) |->
                [typeof |-> "object", kind |-> "table_cell",
                 subnodes |-> outs[k].items]])

tokenToNode(token) ==
    LET kind == token.type IN
    CASE kind = "text" -> Str(token.text)
      [] kind \in {"br", "hr"} -> [typeof |-> "object", kind |-> kind]
      [] kind = "code" -> codeNode(token)
      [] kind = "html" -> htmlNode(token)
      [] kind \in {"image", "link"} ->
            LET subnodes == mapTokens(token.tokens)
            IN  IF IsThrow(subnodes) THEN subnodes
                ELSE linkNode(token, subnodes.items)
      [] kind = "list" ->
            LET subnodes == mapTokens(token.items)
            IN  IF IsThrow(subnodes) THEN subnodes
                ELSE [typeof |-> "object", kind |-> kind, ordered |-> token.ordered,
                      subnodes |-> subnodes.items]
      [] kind = "table" ->
            LET header == mapCells(token.header)
                rows == [k \in 1..Len(token.rows) |-> mapCells(token.rows[k])]
            IN  IF IsThrow(header) THEN header
                ELSE IF anyThrow(rows) THEN firstThrow(rows)
                ELSE [typeof |-> "object", align |-> token.align, kind |-> kind,
                      subnodes |->
                        << [typeof |-> "object", kind |-> "table_header",
                            subnodes |-> header.items] >>
                        \o [k \in 1..Len(rows) |->
                                [typeof |-> "object", kind |-> "table_row",
                                 subnodes |-> rows[k].items]]]
      [] kind = "codespan" ->
            [typeof |-> "object", kind |-> kind, subnodes |-> <<Str(token.text)>>]
      [] kind = "heading" ->
            [typeof |-> "object", kind |-> kind, depth |-> token.depth,
             subnodes |-> <<Str(token.text)>>]
      [] kind = "space" -> Null
      [] kind = "blockquote" ->
            LET subnodes == mapTokens(token.tokens)
            IN  IF IsThrow(subnodes) THEN subnodes
                ELSE blockquoteNode(
                        [typeof |-> "object", kind |-> kind, subnodes |-> subnodes.items])
      [] kind \in ContainerTypes ->
            LET subnodes == mapTokens(token.tokens)
            IN  IF IsThrow(subnodes) THEN subnodes
                ELSE [typeof |-> "object", kind |-> kind, subnodes |-> subnodes.items]
      [] OTHER -> Raise(ErrUnsupportedToken(kind))

----------------------------------------------------------------------------
(* The inputs of parseRawMarkdown(): what the front-matter parser and the  *)
(* `marked` lexer hand over.                                               *)

\* Longest tail of the first paragraph of a blockquote, after its first
\* sub-token.
MaxRest == 2

\* Most children of a blockquote after its first paragraph.
MaxOthers == 1

TextToken(chars) == [type |-> "text", text |-> chars]
ParagraphToken(tokens) == [type |-> "paragraph", tokens |-> tokens]
BlockquoteToken(tokens) == [type |-> "blockquote", tokens |-> tokens]

\* The texts a first sub-token is drawn from: an opening, a label, a
\* closing and what follows.
MarkerOpenings == { <<"[", "!">>, <<"!">> }
MarkerLabels == AlertLabels \cup
    { <<"n", "o", "t", "e">>, <<"N", "o", "t", "e">>, <<"N", "O", "T", "E", "S">>,
      <<>> }
MarkerClosings == { <<"]">>, <<"]", " ">>, <<>> }
MarkerFollowers == { <<>>, <<"\n", "a", "\n", "b">>, <<" ", "a">> }

MarkerTexts ==
    { o \o l \o c \o f : o \in MarkerOpenings, l \in MarkerLabels,
                         c \in MarkerClosings, f \in MarkerFollowers }

InlineTokens == {
    [type |-> "br"],
    TextToken(<<"b">>),
    [type |-> "em", tokens |-> <<TextToken(<<"e">>)>>] }

BlockTokens == {
    [type |-> "space"],
    ParagraphToken(<<TextToken(<<"p">>)>>),
    [type |-> "hr"] }

FirstParagraphs ==
    { ParagraphToken(h \o t) :
        h \in {<<>>} \cup { <<TextToken(x)>> : x \in MarkerTexts },
        t \in SeqsUpTo(InlineTokens, MaxRest) }

Blockquotes ==
    { BlockquoteToken(p \o o) :
        p \in {<<>>} \cup { <<x>> : x \in FirstParagraphs },
        o \in SeqsUpTo(BlockTokens, MaxOthers) }

\* A token of a kind tokenToNode() has no case for: marked's `escape`.
EscapeToken == [type |-> "escape", text |-> <<"*">>]

\* One token of the named kind around `child`.
Wrap(type, child) ==
    CASE type \in {"heading"} ->
            [type |-> type, depth |-> 1, text |-> <<"h">>, tokens |-> <<child>>]
      [] type = "text" -> [type |-> type, text |-> <<"t">>, tokens |-> <<child>>]
      [] type \in {"image", "link"} ->
            [type |-> type, href |-> "u", title |-> "", tokens |-> <<child>>]
      [] type = "list" ->
            [type |-> type, ordered |-> FALSE,
             items |-> << [type |-> "list_item", tokens |-> <<child>>] >>]
      [] type = "table_header" ->
            [type |-> "table", align |-> <<"left">>,
             header |-> << [tokens |-> <<child>>] >>, rows |-> <<>>]
      [] type = "table_row" ->
            [type |-> "table", align |-> <<"left">>,
             header |-> << [tokens |-> <<TextToken(<<"k">>)>>] >>,
             rows |-> << << [tokens |-> <<child>>] >> >>]
      [] OTHER -> [type |-> type, tokens |-> <<child>>]

WrapTypes ==
    {"blockquote", "heading", "text", "image", "link", "list", "table_header",
     "table_row"} \cup ContainerTypes

LeafTokens ==
    { EscapeToken, TextToken(<<"a">>), TextToken(<<>>), [type |-> "space"] }

\* The tokens nested at most `d` deep.
RECURSIVE Nested(_)
Nested(d) ==
    IF d = 0 THEN LeafTokens
    ELSE LeafTokens \cup { Wrap(type, child) : type \in WrapTypes,
                                               child \in Nested(d - 1) }

MaxDepth == 2

\* Code tokens: a language, or none, and a few lines of text.
MaxCodeLines == 4

CodeLines == { <<>>, <<"#", " ", "d">>, <<"c">>, <<"#">> }

CodeTexts == { joinLines(ls) : ls \in SeqsUpTo(CodeLines, MaxCodeLines) }

CodeLanguages ==
    {"bash", "console", "fish", "shell", "sh", "zsh", "js", "plaintext", ""}

CodeTokens ==
    { [type |-> "code", text |-> t, lang |-> l] :
        t \in CodeTexts, l \in CodeLanguages }
    \cup { [type |-> "code", text |-> t] : t \in CodeTexts }

\* html tokens: white space, an opening, a content, a closing, white space.
HtmlOpenings == { <<"<", "!", "-", "-">>, <<"<", "b", ">">> }
HtmlContents == { <<>>, <<"c">>, <<" ", "c", " ">> }
HtmlClosings == { <<"-", "-", ">">>, <<"<", "/", "b", ">">> }

HtmlTexts ==
    { l \o o \o c \o e \o t :
        l \in { <<>>, <<" ">> }, o \in HtmlOpenings, c \in HtmlContents,
        e \in HtmlClosings, t \in { <<>>, <<"\n">>, <<" ", "\n">> } }

HtmlTokens ==
    { [type |-> "html", block |-> b, pre |-> p, text |-> t] :
        b \in BOOLEAN, p \in BOOLEAN, t \in HtmlTexts }

\* Whole documents: a few top-level tokens, some of which fail.
MaxDoc == 2

DocTokens == {
    [type |-> "space"],
    TextToken(<<>>),
    ParagraphToken(<<TextToken(<<"p">>)>>),
    [type |-> "hr"],
    EscapeToken,
    [type |-> "code", lang |-> "sh", text |-> <<"#", " ", "d", "\n", "c">>],
    [type |-> "code", lang |-> "sh", text |-> <<"c">>],
    Wrap("heading", EscapeToken) }

\* Heading tokens as the lexer gives them: `text` is the source text of the
\* heading, `tokens` its inline tokens.
HeadingTokens ==
    { [type |-> "heading", depth |-> d, text |-> h[1], tokens |-> h[2]] :
        d \in {1, 6},
        h \in { << <<"H">>, <<TextToken(<<"H">>)>> >>,
                << <<"a", " ", "*", "b", "*">>,
                   <<TextToken(<<"a", " ">>),
                     [type |-> "em", tokens |-> <<TextToken(<<"b">>)>>]>> >> } }

Documents ==
    { <<b>> : b \in Blockquotes \cup Nested(MaxDepth) \cup CodeTokens \cup HtmlTokens
                    \cup HeadingTokens }
    \cup SeqsUpTo(DocTokens, MaxDoc)

\* The attribute maps of the front-matter parser.
Frontmatters ==
    { {}, { <<"title", "T">> }, { <<"title", "T">>, <<"draft", "no">> } }

----------------------------------------------------------------------------
(* parseRawMarkdown() as a state machine.                                  *)

MdInit ==
    /\ frontmatter \in Frontmatters
    /\ markedTokens \in Documents
    /\ mdPc = "call"
    /\ mdNodes = <<>>
    /\ mdError = <<>>
    /\ ShellIdle
    /\ CliIdle
    /\ LegacyIdle
    /\ SessionIdle

\* Object.keys(frontmatter).length === 0
noFrontmatterNever(fm) == FALSE

noFrontmatter(fm) == Cardinality({p[1] : p \in fm}) = 0

\* The whole call: map the tokens, drop the falsy nodes, prepend the
\* front-matter when it has a key.
ParseRawMarkdown ==
    /\ mdPc = "call"
    /\ LET markdownNodes == mapTokens(markedTokens)
       IN  IF IsThrow(markdownNodes)
           THEN /\ mdPc' = "thrown"
                /\ mdError' = markdownNodes.error
                /\ UNCHANGED mdNodes
           ELSE /\ mdPc' = "returned"
                /\ mdNodes' =
                    IF noFrontmatter(frontmatter) THEN markdownNodes.items
                    ELSE << [typeof |-> "object", kind |-> "frontmatter",
                             data |-> frontmatter] >> \o markdownNodes.items
                /\ UNCHANGED mdError
    /\ UNCHANGED <<frontmatter, markedTokens, shellVars, cliVars, legacyVars, sessionVars>>

MdNext == ParseRawMarkdown

MdSpec == MdInit /\ [][MdNext]_vars

----------------------------------------------------------------------------
(* Properties of the blockquote case of tokenToNode().                     *)

MdDone == mdPc \in {"returned", "thrown"}

\* The returned nodes after the front-matter node, when there is one.
bodyNodes ==
    IF mdNodes # <<>> /\ mdNodes[1].typeof = "object"
        /\ mdNodes[1].kind = "frontmatter"
    THEN Tail(mdNodes)
    ELSE mdNodes

\* The document is one blockquote whose first child is a paragraph whose
\* first sub-item is a text.
MarkerCandidate ==
    /\ Len(markedTokens) = 1
    /\ markedTokens[1].type = "blockquote"
    /\ markedTokens[1].tokens # <<>>
    /\ markedTokens[1].tokens[1].type = "paragraph"
    /\ markedTokens[1].tokens[1].tokens # <<>>
    /\ markedTokens[1].tokens[1].tokens[1].type = "text"

\* That text, and the blockquote's children after the first paragraph.
markerText == markedTokens[1].tokens[1].tokens[1].text
otherChildren == Tail(markedTokens[1].tokens)

\* The five labels with the severity each stands for.
KnownLabels == {
    <<<<"C", "A", "U", "T", "I", "O", "N">>, <<"c", "a", "u", "t", "i", "o", "n">>>>,
    <<<<"I", "M", "P", "O", "R", "T", "A", "N", "T">>,
      <<"i", "m", "p", "o", "r", "t", "a", "n", "t">>>>,
    <<<<"N", "O", "T", "E">>, <<"n", "o", "t", "e">>>>,
    <<<<"T", "I", "P">>, <<"t", "i", "p">>>>,
    <<<<"W", "A", "R", "N", "I", "N", "G">>, <<"w", "a", "r", "n", "i", "n", "g">>>> }

\* `[!LABEL]`
Marker(label) == <<"[", "!">> \o label \o <<"]">>

\* The text is `[!LABEL]`, a line break and further text.
MarkerLine(text, label) ==
    /\ startsWith(text, Marker(label) \o <<"\n">>)
    /\ Len(text) > Len(label) + 4

\* C9: a blockquote whose first paragraph starts with the text `[!LABEL]`,
\* a line break and further text, LABEL one of the five upper-case labels,
\* becomes an alert node of the lower-cased severity; its first subnode is
\* a paragraph that starts with the text after the line break, its other
\* subnodes are the transformed other children of the blockquote.
C9_AlertNode ==
    \A ls \in KnownLabels :
        (MdDone /\ MarkerCandidate /\ MarkerLine(markerText, ls[1])) =>
            /\ mdPc = "returned"
            /\ Len(bodyNodes) = 1
            /\ bodyNodes[1].kind = "alert"
            /\ bodyNodes[1].severity = ls[2]
            /\ bodyNodes[1].subnodes[1].kind = "paragraph"
            /\ bodyNodes[1].subnodes[1].subnodes[1] =
                  Str(SubSeq(markerText, Len(ls[1]) + 5, Len(markerText)))
            /\ Tail(bodyNodes[1].subnodes) = mapTokens(otherChildren).items

\* A `[!WARNING]` blockquote with a further child was transformed.
C9_Witness ==
    /\ mdPc = "returned"
    /\ MarkerCandidate
    /\ MarkerLine(markerText, <<"W", "A", "R", "N", "I", "N", "G">>)
    /\ bodyNodes[1].kind = "alert"
    /\ Len(bodyNodes[1].subnodes) = 2

\* C10, as stated: a first text that begins with `[!` and closes with `]`
\* a non-empty label that is none of the five severities, in upper or in
\* lower case, makes the parse fail with the invalid-alert error.
C10_InvalidSeverityThrows ==
    (MdDone /\ MarkerCandidate /\ startsWith(markerText, <<"[", "!">>)
        /\ \E k \in 4..Len(markerText) :
              /\ markerText[k] = "]"
              /\ \A m \in 3..(k - 1) : markerText[m] # "]"
              /\ \A ls \in KnownLabels :
                    SubSeq(markerText, 3, k - 1) \notin {ls[1], ls[2]})
    => (mdPc = "thrown" /\ mdError[1] = "Invalid alert type")

\* The document is one blockquote, and the transformed children of that
\* blockquote (none of them failed).
OneBlockquote ==
    /\ Len(markedTokens) = 1
    /\ markedTokens[1].type = "blockquote"
    /\ ~IsThrow(mapTokens(markedTokens[1].tokens))

transformedChildren == mapTokens(markedTokens[1].tokens).items

\* The first transformed child is a paragraph; its sub-items.
FirstIsParagraph ==
    /\ transformedChildren # <<>>
    /\ transformedChildren[1].typeof = "object"
    /\ transformedChildren[1].kind = "paragraph"

firstSubItems == transformedChildren[1].subnodes

\* The first sub-item of the first paragraph is a string that begins `[!`.
FirstSubItemIsMarker ==
    /\ firstSubItems # <<>>
    /\ firstSubItems[1].typeof = "string"
    /\ startsWith(firstSubItems[1].value, <<"[", "!">>)

RECURSIVE cellTokens(_)
cellTokens(cells) ==
    IF cells = <<>> THEN <<>>
    ELSE cells[1].tokens \o cellTokens(Tail(cells))

RECURSIVE rowTokens(_)
rowTokens(rows) ==
    IF rows = <<>> THEN <<>>
    ELSE cellTokens(rows[1]) \o rowTokens(Tail(rows))

\* The child tokens a token carries.
childTokens(token) ==
    (IF "tokens" \in DOMAIN token THEN token.tokens ELSE <<>>)
    \o (IF "items" \in DOMAIN token THEN token.items ELSE <<>>)
    \o (IF "header" \in DOMAIN token THEN cellTokens(token.header) ELSE <<>>)
    \o (IF "rows" \in DOMAIN token THEN rowTokens(token.rows) ELSE <<>>)

\* A token of the kind occurs in the tree of `token`, itself included.
RECURSIVE occursIn(_, _)
occursIn(kind, token) ==
    \/ token.type = kind
    \/ \E k \in DOMAIN childTokens(token) : occursIn(kind, childTokens(token)[k])

\* C12, as stated: a document of one token in whose tree a token of the
\* unrecognised kind `escape` occurs, at whatever depth and under whatever
\* parent, fails with the unsupported-token error that names `escape`.
C12_UnsupportedAnywhere ==
    (MdDone /\ Len(markedTokens) = 1 /\ occursIn("escape", markedTokens[1])) =>
        (mdPc = "thrown" /\ mdError = ErrUnsupportedToken("escape"))

\* The top-level tokens whose transform raises.
failingTokens == {k \in 1..Len(markedTokens) : IsThrow(tokenToNode(markedTokens[k]))}

\* The transforms of the top-level tokens, the falsy ones dropped.
allNodes ==
    SelectSeq([k \in 1..Len(markedTokens) |-> tokenToNode(markedTokens[k])], Truthy)

\* C13: a call either returns the complete node list, or raises exactly one
\* error, that of the first token that fails, and returns nothing: no node
\* of an earlier token and no front-matter node comes out of a failed call.
C13_AllOrNothing ==
    /\ (MdDone /\ failingTokens # {}) =>
            /\ mdPc = "thrown"
            /\ mdNodes = <<>>
            /\ \E k \in failingTokens :
                  /\ \A m \in failingTokens : k <= m
                  /\ mdError = tokenToNode(markedTokens[k]).error
    /\ (MdDone /\ failingTokens = {}) =>
            /\ mdPc = "returned"
            /\ mdError = <<>>
            /\ bodyNodes = allNodes

\* A call with a front-matter and a good token before a failing one raised.
C13_Witness ==
    /\ mdPc = "thrown"
    /\ frontmatter # {}
    /\ Len(markedTokens) = 2
    /\ failingTokens = {2}
    /\ Truthy(tokenToNode(markedTokens[1]))
    /\ mdNodes = <<>>

\* The document is one code token; its language, `plaintext` by default.
OneCodeToken == Len(markedTokens) = 1 /\ markedTokens[1].type = "code"

codeLang ==
    IF "lang" \in DOMAIN markedTokens[1] /\ markedTokens[1].lang # ""
    THEN markedTokens[1].lang
    ELSE "plaintext"

ShellLanguages == {"bash", "console", "fish", "shell", "sh", "zsh"}

\* The tokens parseShellCodeBlock() gives for the text of the code token.
shellTokens == parseShellCodeBlock(markedTokens[1].text)

\* C14: for a code token of a shell language whose text the shell
\* tokenizer accepts, the code node carries that language and one subnode
\* per shell token, in order: a description or an output token as it is,
\* a command token as a `command` node that carries the one highlight of
\* its lines joined by line breaks, in the language of the block.
C14_ShellCodeNode ==
    (MdDone /\ OneCodeToken /\ codeLang \in ShellLanguages /\ ~IsThrow(shellTokens)) =>
        /\ mdPc = "returned"
        /\ Len(bodyNodes) = 1
        /\ bodyNodes[1].kind = "code"
        /\ bodyNodes[1].language = codeLang
        /\ Len(bodyNodes[1].subnodes) = Len(shellTokens.items)
        /\ \A k \in 1..Len(shellTokens.items) :
              LET shellToken == shellTokens.items[k]
                  subnode == bodyNodes[1].subnodes[k]
              IN  IF shellToken.kind \in {"description", "output"}
                  THEN subnode = shellToken
                  ELSE /\ shellToken.kind = "command"
                       /\ subnode =
                            [kind |-> "command",
                             subnodes |->
                                [typeof |-> "hljs",
                                 text |-> joinLines(shellToken.lines),
                                 language |-> codeLang]]

\* A shell block of a description, a command of two lines and an output
\* was transformed.
C14_Witness ==
    /\ mdPc = "returned"
    /\ OneCodeToken
    /\ codeLang = "zsh"
    /\ ~IsThrow(shellTokens)
    /\ Len(shellTokens.items) = 3
    /\ Len(shellTokens.items[2].lines) = 2
    /\ bodyNodes[1].subnodes[2].subnodes.text = <<"c", "\n", "c">>
    /\ bodyNodes[1].subnodes[3].kind = "output"

\* C15: a code token whose language is absent, empty or none of the shell
\* languages never reaches the shell tokenizer, so the parse returns
\* whatever the text is; the code node carries the one highlight of the
\* whole text, and its language is the token's, `plaintext` when the token
\* has none.
C15_OtherCodeNode ==
    (MdDone /\ OneCodeToken /\ codeLang \notin ShellLanguages) =>
        /\ mdPc = "returned"
        /\ bodyNodes =
              << [typeof |-> "object", kind |-> "code", language |-> codeLang,
                  subnodes |-> [typeof |-> "hljs",
                                text |-> markedTokens[1].text,
                                language |-> codeLang]] >>

\* A code token without a language, whose text the shell tokenizer
\* rejects, was transformed to a `plaintext` code node.
C15_Witness ==
    /\ mdPc = "returned"
    /\ OneCodeToken
    /\ "lang" \notin DOMAIN markedTokens[1]
    /\ IsThrow(shellTokens)
    /\ bodyNodes[1].language = "plaintext"
    /\ bodyNodes[1].subnodes.text = markedTokens[1].text

\* The document is one html token; its text trimmed at both ends.
OneHtmlToken == Len(markedTokens) = 1 /\ markedTokens[1].type = "html"

trimmedHtml == trim(markedTokens[1].text)

\* C16, as stated: an html token whose text, trimmed at both ends, starts
\* with `<!--` and ends with `-->` becomes a comment node whose one subnode
\* is the trimmed text between the two, white space around the comment or
\* not; every other html token becomes an html node.
C16_HtmlComment ==
    (MdDone /\ OneHtmlToken) =>
        /\ mdPc = "returned"
        /\ Len(bodyNodes) = 1
        /\ IF /\ startsWith(trimmedHtml, <<"<", "!", "-", "-">>)
              /\ endsWith(trimmedHtml, <<"-", "-", ">">>)
           THEN bodyNodes[1] =
                    [typeof |-> "object", kind |-> "comment",
                     subnodes |->
                        <<Str(trim(SubSeq(trimmedHtml, 5, Len(trimmedHtml) - 3)))>>]
           ELSE bodyNodes[1].kind = "html"

\* The places of the front-matter nodes in the returned list.
frontmatterPlaces ==
    {k \in 1..Len(mdNodes) :
        mdNodes[k].typeof = "object" /\ mdNodes[k].kind = "frontmatter"}

\* C17: the returned list holds a front-matter node exactly when the
\* attribute map has a key; then there is one, it is the first node, it
\* carries the map, and the nodes after it are the list the body gives
\* alone. Without a key the list is that of the body.
C17_FrontmatterNode ==
    (mdPc = "returned") =>
        IF \E p \in frontmatter : TRUE
        THEN /\ frontmatterPlaces = {1}
             /\ mdNodes[1].data = frontmatter
             /\ Tail(mdNodes) = allNodes
        ELSE /\ frontmatterPlaces = {}
             /\ mdNodes = allNodes

\* A document of two tokens with a front-matter of two keys was returned.
C17_Witness ==
    /\ mdPc = "returned"
    /\ Cardinality(frontmatter) = 2
    /\ Len(markedTokens) = 2
    /\ Len(mdNodes) = 3
    /\ mdNodes[1].kind = "frontmatter"

\* How many of the tokens are not of kind `space`.
nonSpace(tokens) == Cardinality({k \in 1..Len(tokens) : tokens[k].type # "space"})

\* C18, as stated: a mapped list of child tokens gives one node for each
\* token that is not a space, whatever the token; here for the top-level
\* list and for the children of a paragraph, list item, em, strong or del
\* that is the only token of the document.
C18_OnlySpacesDropped ==
    (mdPc = "returned") =>
        /\ Len(bodyNodes) = nonSpace(markedTokens)
        /\ (Len(markedTokens) = 1 /\ markedTokens[1].type \in ContainerTypes) =>
              Len(bodyNodes[1].subnodes) = nonSpace(markedTokens[1].tokens)

\* The text is `[!`, the label in whatever case, `]`, and then nothing or a
\* line break and further text.
MarkerAnyCase(text, ls) ==
    /\ Len(text) >= Len(ls[1]) + 3
    /\ SubSeq(text, 1, 2) = <<"[", "!">>
    /\ toLowerCase(SubSeq(text, 3, Len(ls[1]) + 2)) = ls[2]
    /\ text[Len(ls[1]) + 3] = "]"
    /\ Len(text) > Len(ls[1]) + 3 => text[Len(ls[1]) + 4] = "\n"

writtenLabel(text, ls) == SubSeq(text, 3, Len(ls[1]) + 2)

\* C19, as stated: the label is matched whatever its case, so `[!note]`
\* and `[!Note]` give an alert of severity note as `[!NOTE]` does.
C19_Original ==
    \A ls \in KnownLabels :
        (MdDone /\ MarkerCandidate /\ MarkerAnyCase(markerText, ls)) =>
            /\ mdPc = "returned"
            /\ bodyNodes[1].kind = "alert"
            /\ bodyNodes[1].severity = ls[2]

\* C19, amended: the label is matched as written. In upper case it gives
\* the alert of that severity; in lower or mixed case the blockquote is
\* returned as a plain blockquote node with its transformed children.
C19_CaseSensitive ==
    \A ls \in KnownLabels :
        (MdDone /\ MarkerCandidate /\ MarkerAnyCase(markerText, ls)) =>
            /\ mdPc = "returned"
            /\ IF writtenLabel(markerText, ls) = ls[1]
               THEN /\ bodyNodes[1].kind = "alert"
                    /\ bodyNodes[1].severity = ls[2]
               ELSE bodyNodes =
                        << [typeof |-> "object", kind |-> "blockquote",
                            subnodes |-> transformedChildren] >>

\* A blockquote that starts with `[!Note]`, a line break and text was
\* returned as a blockquote.
C19_Witness ==
    /\ mdPc = "returned"
    /\ MarkerCandidate
    /\ startsWith(markerText, <<"[", "!", "N", "o", "t", "e", "]", "\n">>)
    /\ bodyNodes[1].kind = "blockquote"

----------------------------------------------------------------------------
(* visualise.js: one run of the script as a state machine.                 *)

\* The two style sheets, each path one item.
cssDarkFilePath == <<"./node_modules/highlight.js/styles/stackoverflow-dark.css">>
cssLightFilePath == <<"./node_modules/highlight.js/styles/stackoverflow-light.css">>

\* !filePath
noFilePath(path) == path.typeof = "undefined" \/ path.value = <<>>

\* filePath.slice(-3) !== '.md'
notMarkdownNever(path) == FALSE

notMarkdown(path) ==
    sliceFrom(path.value, IF Len(path.value) > 3 THEN Len(path.value) - 3 ELSE 0)
        # <<".", "m", "d">>

\* filePath.slice(0, -3) + '.html'
outputFilePath(path) ==
    SubSeq(path.value, 1, Len(path.value) - 3) \o <<".", "h", "t", "m", "l">>

\* The highlight() callback of markedHighlight, for one code block: the
\* language falls back to plaintext, a shell block goes through
\* parseShellCodeBlock(), whose exception leaves marked.parse().
highlightBlock(block) ==
    LET language == IF block.lang \in {"bash", "console", "fish", "shell", "sh",
                                       "zsh", "js"}
                    THEN block.lang ELSE "plaintext"
    IN  IF ~isShellLanguage(language) THEN Array(<<>>)
        ELSE parseShellCodeBlock(block.text)

\* marked.parse(fileContent): the first exception of the code blocks, in
\* order, or no exception.
parseThrows(blocks) == \E k \in 1..Len(blocks) : IsThrow(highlightBlock(blocks[k]))

\* The characters of /[-_/a-z0-9]/.
AssetChars ==
    {"-", "_", "/"} \cup {LowerCase[k] : k \in 1..Len(LowerCase)}
    \cup {"0", "1", "2", "3", "4", "5", "6", "7", "8", "9"}

\* /^asset\/[-_/a-z0-9]+\.(ext|...)$/.test(value)
assetTest(value, extensions) ==
    \E e \in extensions :
        /\ startsWith(value, <<"a", "s", "s", "e", "t", "/">>)
        /\ endsWith(value, <<".">> \o e)
        /\ Len(value) > 6 + 1 + Len(e)
        /\ \A k \in 7..(Len(value) - Len(e) - 1) : value[k] \in AssetChars

\* The validators `icon` and `image`.
validatorTest(validator, value) ==
    IF validator = "icon"
    THEN assetTest(value, {<<"p", "n", "g">>, <<"w", "e", "b", "p">>})
    ELSE assetTest(value, {<<"j", "p", "g">>, <<"j", "p", "e", "g">>,
                           <<"p", "n", "g">>, <<"w", "e", "b", "p">>})

\* frontmatterSchema: its first and its last entry stand for the forty
\* `icon` entries and the `image` entry.
frontmatterSchema == <<
    [identifier |-> "desktopCursorArrowLight", type |-> "string",
     fallback |-> Str(<<"asset/desktop-icon-arrow-light-default.png">>),
     validator |-> "icon"],
    [identifier |-> "desktopWallpaperLight", type |-> "string",
     fallback |-> Str(<<"asset/desktop-wallpaper-light-default.jpg">>),
     validator |-> "image"] >>

\* identifier in actualFrontmatter, and actualFrontmatter[identifier]
hasKey(attributes, identifier) == \E p \in attributes : p[1] = identifier
valueOf(attributes, identifier) ==
    (CHOOSE p \in attributes : p[1] = identifier)[2]

\* One pass of the forEach callback over the schema entry `k`.
entryThrows(attributes, entry) ==
    /\ hasKey(attributes, entry.identifier)
    /\ LET value == valueOf(attributes, entry.identifier)
       IN  \/ value.typeof # entry.type
           \/ ~validatorTest(entry.validator, value.value)

entryValue(attributes, entry) ==
    IF hasKey(attributes, entry.identifier)
    THEN valueOf(attributes, entry.identifier)
    ELSE entry.fallback

\* The entries the forEach gets through before one throws.
validatedUpTo(attributes) ==
    LET bad == {k \in 1..Len(frontmatterSchema) :
                    entryThrows(attributes, frontmatterSchema[k])}
    IN  IF bad = {} THEN Len(frontmatterSchema)
        ELSE (CHOOSE k \in bad : \A m \in bad : k <= m) - 1

validationThrows(attributes) == validatedUpTo(attributes) < Len(frontmatterSchema)

\* The arguments, disks and files of the runs.
MaxBlocks == 2

FilePaths ==
    { Undefined, Str(<<>>), Str(<<"a", ".", "m", "d">>), Str(<<"a", ".", "t", "x", "t">>),
      Str(<<"a", ".", "m", "d", ".", "m", "d">>), Str(<<"b", ".", "M", "D">>),
      Str(<<".", "m", "d">>), Str(<<"m", "d">>) }

Disks(path) ==
    LET all == {cssDarkFilePath, cssLightFilePath}
                \cup (IF path.typeof = "string" THEN {path.value} ELSE {})
    IN  { all, {cssDarkFilePath, cssLightFilePath}, all \ {cssLightFilePath} }

FileBlocks == {
    [lang |-> "sh", text |-> <<"#", " ", "d", "\n", "c", "\n", "#", " ", "o">>],
    [lang |-> "sh", text |-> <<"c">>],
    [lang |-> "js", text |-> <<"c">>],
    [lang |-> "", text |-> <<"c">>] }

IconValues ==
    { Str(<<"a", "s", "s", "e", "t", "/", "a", ".", "p", "n", "g">>),
      Str(<<"a", "s", "s", "e", "t", "/", "a", ".", "j", "p", "g">>),
      [typeof |-> "number", value |-> <<"1">>] }

ImageValues ==
    { Str(<<"a", "s", "s", "e", "t", "/", "a", ".", "j", "p", "g">>),
      Str(<<"a", "s", "s", "e", "t", "/", "A", ".", "j", "p", "g">>) }

FileAttributes ==
    { a \cup b :
        a \in {{}} \cup { {<<"desktopCursorArrowLight", v>>} : v \in IconValues },
        b \in {{}} \cup { {<<"desktopWallpaperLight", v>>} : v \in ImageValues } }

CliInit ==
    /\ filePath \in FilePaths
    /\ disk \in Disks(filePath)
    /\ fileBlocks \in SeqsUpTo(FileBlocks, MaxBlocks)
    /\ fileAttributes \in FileAttributes
    /\ cliPc = "args"
    /\ exitStatus = -1
    /\ filesRead = <<>>
    /\ filesWritten = <<>>
    /\ actualFrontmatter = {}
    /\ validFrontmatter = {}
    /\ ShellIdle
    /\ MdIdle
    /\ LegacyIdle
    /\ SessionIdle

\* process.exit(1), and the end of the process on an uncaught exception.
Exit(status) == cliPc' = "exited" /\ exitStatus' = status

\* The two checks of the argument.
CheckArgument ==
    /\ cliPc = "args"
    /\ IF noFilePath(filePath) \/ notMarkdown(filePath)
       THEN Exit(1)
       ELSE cliPc' = "read" /\ UNCHANGED exitStatus
    /\ UNCHANGED <<filePath, disk, fileBlocks, fileAttributes, filesRead,
                   filesWritten, actualFrontmatter, validFrontmatter>>
    /\ UNCHANGED <<shellVars, mdVars, legacyVars, sessionVars>>

\* readFileSync(filePath), the title, then the two style sheets; a path
\* that is not on the disk makes readFileSync() throw.
ReadFiles ==
    /\ cliPc = "read"
    /\ LET wanted == <<filePath.value, cssDarkFilePath, cssLightFilePath>>
           missing == {k \in 1..3 : wanted[k] \notin disk}
           got == IF missing = {} THEN 3
                  ELSE (CHOOSE k \in missing : \A m \in missing : k <= m) - 1
       IN  /\ filesRead' = SubSeq(wanted, 1, got)
           /\ IF got < 3 THEN Exit(1)
              ELSE cliPc' = "parse" /\ UNCHANGED exitStatus
    /\ UNCHANGED <<filePath, disk, fileBlocks, fileAttributes,
                   filesWritten, actualFrontmatter, validFrontmatter>>
    /\ UNCHANGED <<shellVars, mdVars, legacyVars, sessionVars>>

\* marked.parse(fileContent): preprocess() keeps the attributes, then the
\* code blocks are highlighted.
ParseMarkdown ==
    /\ cliPc = "parse"
    /\ actualFrontmatter' = fileAttributes
    /\ IF parseThrows(fileBlocks) THEN Exit(1)
       ELSE cliPc' = "validate" /\ UNCHANGED exitStatus
    /\ UNCHANGED <<filePath, disk, fileBlocks, fileAttributes, filesRead,
                   filesWritten, validFrontmatter>>
    /\ UNCHANGED <<shellVars, mdVars, legacyVars, sessionVars>>

\* frontmatterSchema.forEach(...)
ValidateFrontmatter ==
    /\ cliPc = "validate"
    /\ validFrontmatter' =
          { <<frontmatterSchema[k].identifier,
              entryValue(actualFrontmatter, frontmatterSchema[k])>> :
                k \in 1..validatedUpTo(actualFrontmatter) }
    /\ IF validationThrows(actualFrontmatter) THEN Exit(1)
       ELSE cliPc' = "write" /\ UNCHANGED exitStatus
    /\ UNCHANGED <<filePath, disk, fileBlocks, fileAttributes, filesRead,
                   filesWritten, actualFrontmatter>>
    /\ UNCHANGED <<shellVars, mdVars, legacyVars, sessionVars>>

\* writeFileSync(outputFilePath, htmlContent), and the script ends.
WriteHtml ==
    /\ cliPc = "write"
    /\ filesWritten' = Append(filesWritten, outputFilePath(filePath))
    /\ cliPc' = "done"
    /\ exitStatus' = 0
    /\ UNCHANGED <<filePath, disk, fileBlocks, fileAttributes, filesRead,
                   actualFrontmatter, validFrontmatter>>
    /\ UNCHANGED <<shellVars, mdVars, legacyVars, sessionVars>>

CliNext ==
    \/ CheckArgument
    \/ ReadFiles
    \/ ParseMarkdown
    \/ ValidateFrontmatter
    \/ WriteHtml

CliSpec == CliInit /\ [][CliNext]_vars

\* The argument is a path that ends in `.md`.
MarkdownPath ==
    /\ filePath.typeof = "string"
    /\ Len(filePath.value) >= 3
    /\ SubSeq(filePath.value, Len(filePath.value) - 2, Len(filePath.value))
          = <<".", "m", "d">>

\* C20: a run writes at most one file, the path of the argument with its
\* final `.md` replaced by `.html`, and writes it only when every code
\* block was parsed and the front-matter validated without an exception.
\* A run whose argument is missing or does not end in `.md` ends with
\* status 1 with nothing read and nothing written; a run that an
\* exception ended has written nothing.
C20_WriteAfterValidation ==
    /\ Len(filesWritten) <= 1
    /\ filesWritten # <<>> =>
          /\ cliPc = "done"
          /\ MarkdownPath
          /\ filesWritten[1] =
                SubSeq(filePath.value, 1, Len(filePath.value) - 3)
                    \o <<".", "h", "t", "m", "l">>
          /\ ~parseThrows(fileBlocks)
          /\ ~validationThrows(fileAttributes)
    /\ (cliPc \notin {"idle", "args"} /\ ~MarkdownPath) =>
          /\ cliPc = "exited"
          /\ exitStatus = 1
          /\ filesRead = <<>>
          /\ filesWritten = <<>>
    /\ (cliPc \in {"validate", "write", "done"} => ~parseThrows(fileBlocks))
    /\ (cliPc \in {"write", "done"} => ~validationThrows(fileAttributes))
    /\ (cliPc = "exited" => exitStatus = 1 /\ filesWritten = <<>>)
    /\ (cliPc = "done" => Len(filesWritten) = 1)

\* A run on `a.md.md` with a shell block and a front-matter wrote
\* `a.md.html`.
C20_Witness ==
    /\ cliPc = "done"
    /\ filePath.value = <<"a", ".", "m", "d", ".", "m", "d">>
    /\ filesWritten = << <<"a", ".", "m", "d", ".", "h", "t", "m", "l">> >>
    /\ Len(fileBlocks) = 2
    /\ fileBlocks[1].lang = "sh"
    /\ Cardinality(actualFrontmatter) = 2

----------------------------------------------------------------------------
(* parseShellCodeBlock(): further properties.                              *)

\* The call failed with the unexpected-empty-line error.
EmptyLineError == Thrown /\ error[1] = "Unexpected empty line"

\* Two blank lines follow each other between the first and the last
\* non-blank line.
TwoBlankLines == \E k \in 1..(Len(lines) - 1) : lines[k] = <<>> /\ lines[k + 1] = <<>>

\* C22: the unexpected-empty-line error names the kind of the current token
\* and says `before` exactly when that token holds no line, `after`
\* otherwise. `before` comes only with kind description, at the second of
\* two blank lines that follow an output; the error never names kind
\* output; and an input with two consecutive blank lines between non-blank
\* lines always fails.
C22_EmptyLineError ==
    /\ EmptyLineError =>
          /\ lines[i] = <<>>
          /\ error[3] = current.kind
          /\ error[3] \in {"description", "command"}
          /\ error[2] = (IF current.lines = <<>> THEN "before" ELSE "after")
          /\ error[2] = "before" =>
                /\ error[3] = "description"
                /\ i >= 2
                /\ lines[i - 1] = <<>>
                /\ Len(result) >= 2
                /\ result[Len(result) - 1].kind = "output"
    /\ ((Returned \/ Thrown) /\ TwoBlankLines) => Thrown

\* Two blank lines after an output raised `before description`.
C22_Witness ==
    /\ EmptyLineError
    /\ error = <<"Unexpected empty line", "before", "description">>
    /\ lines[i - 1] = <<>>
    /\ result[Len(result) - 1].kind = "output"

\* What the call gave, as a value: the returned array or the exception.
shellOutcome == IF Returned THEN Array(result) ELSE Raise(error)

\* The lines joined by carriage return and line feed.
RECURSIVE joinCrLf(_)
joinCrLf(ls) ==
    IF ls = <<>> THEN <<>>
    ELSE IF Len(ls) = 1 THEN ls[1]
    ELSE ls[1] \o <<"\r", "\n">> \o joinCrLf(Tail(ls))

\* The texts that differ from `text` only in line endings, in
\* whitespace-only lines at the start or the end, or in the trailing
\* whitespace of one line or of every line.
Variants(text) ==
    LET raw == splitLines(text)
        pad == <<" ", "\t">>
    IN  { joinCrLf(raw),
          joinLines(raw),
          joinLines(<<pad>> \o raw),
          joinLines(raw \o <<pad>>),
          joinCrLf(<<<<>>, pad>> \o raw \o <<pad, <<>>>>),
          joinLines(spliceTrailing(skipLeading(raw))),
          joinLines([k \in 1..Len(raw) |-> raw[k] \o pad]),
          joinCrLf([k \in 1..Len(raw) |-> trimEnd(raw[k])]) }
    \cup { joinLines([raw EXCEPT ![k] = @ \o pad]) : k \in 1..Len(raw) }

\* C23: the outcome of parseShellCodeBlock depends only on the right-trimmed
\* lines between the first and the last non-blank line: texts that differ
\* in line endings (bare or with carriage return), in whitespace-only lines
\* at the start or the end, or in trailing whitespace of any line give the
\* same returned array or the same error.
C23_SameOutcome ==
    (Returned \/ Thrown) =>
        \A text \in Variants(codeBlock) : parseShellCodeBlock(text) = shellOutcome

\* A call that returned tokens for a text with a carriage return, blank
\* lines at an end and trailing whitespace.
C23_Witness ==
    /\ Returned
    /\ Len(result) >= 3
    /\ \E k \in 1..Len(codeBlock) : codeBlock[k] = "\r"
    /\ Len(splitLines(codeBlock)) > Len(lines)
    /\ \E k \in 1..Len(splitLines(codeBlock)) :
          splitLines(codeBlock)[k] # trimEnd(splitLines(codeBlock)[k])
    /\ Variants(codeBlock) # {codeBlock}

\* The lines of all tokens of `res`, concatenated in token order.
RECURSIVE allLines(_)
allLines(res) ==
    IF res = <<>> THEN <<>> ELSE res[1].lines \o allLines(Tail(res))

\* What a non-blank, right-trimmed source line contributes: a comment line
\* its text without the prefix and trimmed, a command line itself.
contribution(line) ==
    IF line[1] = "#" THEN trim(SubSeq(line, 3, Len(line))) ELSE line

\* The number of blank lines between the first and the last non-blank line.
interiorBlankLines == Cardinality({k \in 1..Len(lines) : lines[k] = <<>>})

\* Every non-blank line gave one line, every blank line none.
OneLineEach ==
    allLines(result) = [k \in 1..Len(nonBlankLines) |-> contribution(nonBlankLines[k])]

\* C24 as stated: in every successful parse the lines of all tokens,
\* concatenated, are the contributions of the non-blank source lines in
\* order, and the number of tokens is 3 times the number of interior blank
\* lines plus 3.
C24_Original ==
    Returned =>
        /\ OneLineEach
        /\ Len(result) = 3 * interiorBlankLines + 3

\* C24, amended: the same, the count of tokens being claimed only for an
\* input with at least one non-blank line; a blank input parses to no token.
C24_LinesAndCount ==
    Returned =>
        /\ OneLineEach
        /\ nonBlankLines # <<>> => Len(result) = 3 * interiorBlankLines + 3
        /\ nonBlankLines = <<>> => Len(result) = 0

\* A successful parse of six non-blank lines around one blank line.
C24_Witness ==
    /\ Returned
    /\ interiorBlankLines = 1
    /\ Len(result) = 6
    /\ Len(allLines(result)) = 6
    /\ \E k \in 1..Len(lines) : lines[k] = <<"#">>

\* C25: in every non-empty returned list every token holds at least one
\* line, and each command follows a description that holds at least one
\* line, in the first triple and in those that follow a blank line.
C25_NoEmptyToken ==
    (Returned /\ result # <<>>) =>
        /\ \A k \in 1..Len(result) : Len(result[k].lines) >= 1
        /\ \A k \in 1..Len(result) :
              result[k].kind = "command" =>
                  /\ k > 1
                  /\ result[k - 1].kind = "description"
                  /\ Len(result[k - 1].lines) >= 1

\* The errors a line of the input raises.
LineErrors == {
    ErrFirstLine[1], ErrAmbiguous[1], "Unexpected empty line",
    ErrUncommented("output")[1] }

\* Most lines appended to an input.
MaxAppended == 2

\* The lines appended to an input, joined.
Appended ==
    { joinLines(ls) :
        ls \in SeqsUpTo({ <<>>, <<"#">>, <<"c">>, <<"#", "a">>, <<"#", " ", "a">> },
                        MaxAppended) \ {<<>>} }

\* C29: the error is decided by the earliest offending line and the lines
\* before it. When a line raised the missing-leading-comment, the
\* ambiguous-comment, the unexpected-empty-line or the
\* unexpected-uncommented-line error, the input with further lines appended
\* after a line break fails with the same error; and the
\* trailing-token-not-output error is raised only after every line was
\* walked without an error.
C29_EarliestLineDecides ==
    /\ (Thrown /\ error[1] \in LineErrors) =>
          \A more \in Appended :
              parseShellCodeBlock(codeBlock \o <<"\n">> \o more) = Raise(error)
    /\ (Thrown /\ error[1] = ErrTrailing("output")[1]) =>
          /\ i = Len(lines) + 1
          /\ isComment(lines[1])
          /\ ~walkLines(<<Token("description", <<>>)>>, lines, 1).thrown
          /\ error[2] = current.kind

\* A call failed at a line that is not the last one.
C29_Witness ==
    /\ Thrown
    /\ error[1] \in LineErrors
    /\ error[1] # ErrFirstLine[1]
    /\ i < Len(lines)
    /\ i > 1

----------------------------------------------------------------------------
(* tokenToNode(): further properties.                                      *)

\* The transformed sub-items of the first paragraph after the marker text.
afterMarker == mapTokens(Tail(markedTokens[1].tokens[1].tokens)).items

\* `items` without one leading `br` node.
withoutLeadingBr(items) ==
    IF items # <<>> /\ items[1].typeof = "object" /\ items[1].kind = "br"
    THEN Tail(items)
    ELSE items

\* The text after the marker's line, when the marker text has a line break.
afterMarkerLine ==
    IF indexOfNewline(markerText) = -1 THEN <<>>
    ELSE <<Str(SubSeq(markerText, indexOfNewline(markerText) + 2, Len(markerText)))>>

\* C26: in an alert the rebuilt first paragraph holds the text after the
\* marker's line, when there is one, and then every remaining sub-item in
\* order, except for one `br` node directly after the marker sub-item; no
\* sub-item of another kind is dropped.
C26_RebuiltParagraph ==
    (mdPc = "returned" /\ MarkerCandidate /\ bodyNodes[1].kind = "alert") =>
        bodyNodes[1].subnodes[1].subnodes =
            afterMarkerLine \o withoutLeadingBr(afterMarker)

\* What follows `[!LABEL]` on the first line of `text`.
restOfMarkerLine(text, label) ==
    LET from == Len(label) + 4
        upTo == IF indexOfNewline(text) = -1 THEN Len(text) ELSE indexOfNewline(text)
    IN  SubSeq(text, from, upTo)

HasInk(chars) == \E k \in 1..Len(chars) : chars[k] \notin WhiteSpace

NOTE == <<"N", "O", "T", "E">>

\* C27 as stated: a first paragraph that starts with `[!NOTE]` followed on
\* the same line by further non-whitespace text is an alert of severity
\* note.
C27_Original ==
    (MdDone /\ MarkerCandidate /\ startsWith(markerText, Marker(NOTE))
        /\ HasInk(restOfMarkerLine(markerText, NOTE)))
    => /\ mdPc = "returned"
       /\ bodyNodes[1].kind = "alert"
       /\ bodyNodes[1].severity = toLowerCase(NOTE)

\* C27, amended: the label is the text between `[!` and a `]` that only
\* whitespace may follow on the marker's line. `[!LABEL]` with nothing or
\* with whitespace after it on its line, with or without a line break and
\* further lines, gives the alert of that severity; with other text after
\* it on the same line the blockquote stays a blockquote.
C27_MarkerEndsItsLine ==
    \A ls \in KnownLabels :
        (MdDone /\ MarkerCandidate /\ startsWith(markerText, Marker(ls[1]))) =>
            /\ mdPc = "returned"
            /\ Len(bodyNodes) = 1
            /\ IF HasInk(restOfMarkerLine(markerText, ls[1]))
               THEN bodyNodes[1].kind = "blockquote"
               ELSE /\ bodyNodes[1].kind = "alert"
                    /\ bodyNodes[1].severity = ls[2]

\* `[!NOTE] a` was transformed, and stayed a blockquote.
C27_Witness ==
    /\ mdPc = "returned"
    /\ MarkerCandidate
    /\ markerText = Marker(NOTE) \o <<" ", "a">>
    /\ bodyNodes[1].kind = "blockquote"

\* The document is one heading token as the lexer gives it.
OneHeading == Len(markedTokens) = 1 /\ markedTokens[1] \in HeadingTokens

\* C28: a heading token becomes a heading node that carries the token's
\* depth, from 1 to 6, and whose subnodes are the transforms, in order, of
\* the heading's inline child tokens.
C28_HeadingChildren ==
    (MdDone /\ OneHeading) =>
        /\ mdPc = "returned"
        /\ bodyNodes[1].kind = "heading"
        /\ bodyNodes[1].depth = markedTokens[1].depth
        /\ bodyNodes[1].depth \in 1..6
        /\ bodyNodes[1].subnodes = mapTokens(markedTokens[1].tokens).items

----------------------------------------------------------------------------
(* lib/sh-code-block-to-array.mjs: shCodeBlockToArray().                   *)

ShErrFirstLine == <<"First non-empty line must be commented \"# ...\"">>
ShErrEmptyLine(kind) == <<"Unexpected empty line in", kind>>
ShErrUncommented(kind) == <<"Unexpected uncommented line in", kind>>
ShErrLast(kind) == <<"Last block must be output not", kind>>

\* line.startsWith('# ')
shIsComment(line) == startsWith(line, <<"#", " ">>)

\* the branch of an uncommented line
shCommandLine(res, line) ==
    IF res[Len(res)].kind = "command" THEN Ok(pushLine(res, trimEnd(line)))
    ELSE Throw(res, ShErrUncommented(res[Len(res)].kind))

\* the body of `for (const line of lines)`
shWalkLine(res, line) ==
    IF shIsComment(line)
    THEN IF res[Len(res)].kind = "command"
         THEN Ok(Append(res, Token("output", <<trim(sliceFrom(line, 2))>>)))
         ELSE Ok(pushLine(res, trim(sliceFrom(line, 2))))
    ELSE IF trim(line) = <<>>
    THEN IF res[Len(res)].kind = "output"
         THEN Ok(Append(res, Token("description", <<>>)))
         ELSE Throw(res, ShErrEmptyLine(res[Len(res)].kind))
    ELSE shCommandLine(res, line)

RECURSIVE shWalkLines(_, _, _)
RECURSIVE shWalkOn(_, _, _)

\* The for loop from line `k` on, `res` being the result so far.
shWalkLines(res, ls, k) ==
    IF k > Len(ls) THEN Ok(res) ELSE shWalkOn(shWalkLine(res, ls[k]), ls, k)

shWalkOn(out, ls, k) ==
    IF out.thrown THEN out ELSE shWalkLines(out.result, ls, k + 1)

\* The check of the last token, and the return.
shWalkEnd(out) ==
    IF out.thrown THEN Raise(out.error)
    ELSE IF out.result[Len(out.result)].kind # "output"
         THEN Raise(ShErrLast(out.result[Len(out.result)].kind))
         ELSE Array(out.result)

\* The function from the split lines on.
shParseLines(ls) ==
    IF ~shIsComment(ls[1]) THEN Raise(ShErrFirstLine)
    ELSE shWalkEnd(shWalkLines(<<Token("description", <<>>)>>, ls, 1))

\* The function from the trimmed code block on.
shParseTrimmed(trimmedLines) ==
    IF trimmedLines = <<>> THEN Array(<<>>)
    ELSE shParseLines(splitLines(trimmedLines))

shCodeBlockToArray(block) == shParseTrimmed(trim(block))

\* The inputs: a few lines joined by line breaks.
MaxShLines == 4

ShLines == {
    <<>>,
    <<"#", " ", "d">>,
    <<"#", " ", "o", " ">>,
    <<"c">>,
    <<" ", "c", " ">>,
    <<"#">> }

ShBlocks == { joinLines(ls) : ls \in SeqsUpTo(ShLines, MaxShLines) }

LegacyInit ==
    /\ shBlock \in ShBlocks
    /\ shPc = "call"
    /\ shResult = <<>>
    /\ shError = <<>>
    /\ ShellIdle
    /\ MdIdle
    /\ CliIdle
    /\ SessionIdle

\* The outcome of the call, returned or thrown.
ShOutcome(outcome) ==
    IF IsThrow(outcome)
    THEN shPc' = "thrown" /\ shError' = outcome.error /\ UNCHANGED shResult
    ELSE shPc' = "returned" /\ shResult' = outcome.items /\ UNCHANGED shError

\* One whole call.
ShCodeBlockToArray ==
    /\ shPc = "call"
    /\ ShOutcome(shCodeBlockToArray(shBlock))
    /\ UNCHANGED <<shBlock, shellVars, mdVars, cliVars, sessionVars>>

LegacyNext == ShCodeBlockToArray

LegacySpec == LegacyInit /\ [][LegacyNext]_vars

\* The lines of the argument.
shLinesOf == splitLines(shBlock)

\* The argument is lines 1..a that begin `# `, then lines a+1..b that are
\* not blank and do not begin `#`, then lines b+1..n that begin `# `.
ShTriple(a, b) ==
    /\ 1 <= a /\ a < b /\ b < Len(shLinesOf)
    /\ \A k \in 1..Len(shLinesOf) :
          IF k <= a \/ k > b
          THEN shIsComment(shLinesOf[k])
          ELSE trim(shLinesOf[k]) # <<>> /\ trimStart(shLinesOf[k])[1] # "#"

\* C21, as stated: a code block of description lines, command lines and
\* output lines gives three tokens, description, command and output, that
\* hold those lines.
C21_DescriptionCommandOutput ==
    \A a, b \in 1..Len(shLinesOf) :
        (shPc \in {"returned", "thrown"} /\ ShTriple(a, b)) =>
            /\ shPc = "returned"
            /\ Len(shResult) = 3
            /\ shResult[1] = Token("description",
                    [k \in 1..a |-> trim(sliceFrom(shLinesOf[k], 2))])
            /\ shResult[2] = Token("command",
                    [k \in 1..(b - a) |-> trimEnd(shLinesOf[a + k])])
            /\ shResult[3] = Token("output",
                    [k \in 1..(Len(shLinesOf) - b) |->
                        trim(sliceFrom(shLinesOf[b + k], 2))])

----------------------------------------------------------------------------
(* Several calls of parseRawMarkdown() and parseShellCodeBlock() in one    *)
(* session, after the modules are loaded.                                  *)

\* hljs.addPlugin({ 'after:highlight': afterHighlightHandler }), at the top
\* level of the module: what loading it leaves in `hljs`.
loadedPlugins == <<"after:highlight">>

\* The plugins of `hljs` after a call of one of the two functions, as if the
\* function registered the handler itself.
pluginsAfterCallAdds(pl) == Append(pl, "after:highlight")

\* The plugins of `hljs` after a call of one of the two functions: neither
\* function, nor the handler, adds or removes one.
pluginsAfterCall(pl) == pl

\* The return of parseRawMarkdown(): the nodes, after the front-matter when
\* it has a key; the exception of the map when there is one.
withFrontmatter(fm, markdownNodes) ==
    IF IsThrow(markdownNodes) THEN markdownNodes
    ELSE IF noFrontmatter(fm) THEN markdownNodes
    ELSE Array(<< [typeof |-> "object", kind |-> "frontmatter", data |-> fm] >>
               \o markdownNodes.items)

\* parseRawMarkdown(), from the front-matter and the tokens of the lexer on.
parseRawMarkdown(fm, tokens) == withFrontmatter(fm, mapTokens(tokens))

\* Most calls in one session.
MaxCalls == 3

\* The arguments of the calls: code blocks that parse and that fail,
\* documents that transform and that fail.
SessionBlocks == {
    <<>>,
    <<"#", " ", "d", "\n", "c", "\n", "#", " ", "o">>,
    <<"#", " ", "d", "\n", "c">>,
    <<"c">>,
    <<"#", "\n", "\n", "#">> }

SessionDocuments == {
    <<>>,
    <<ParagraphToken(<<TextToken(<<"p">>)>>)>>,
    <<EscapeToken>>,
    <<[type |-> "code", lang |-> "sh", text |-> <<"#", " ", "d", "\n", "c", "\n", "#">>]>>,
    <<[type |-> "code", lang |-> "sh", text |-> <<"c">>]>>,
    <<[type |-> "code", lang |-> "js", text |-> <<"x">>]>> }

SessionFrontmatters == { {}, { <<"title", "T">> } }

SessionInit ==
    /\ plugins = loadedPlugins
    /\ calls = <<>>
    /\ ShellIdle
    /\ MdIdle
    /\ CliIdle
    /\ LegacyIdle

\* One call of parseShellCodeBlock(codeBlock), recorded with its outcome.
CallParseShellCodeBlock ==
    /\ Len(calls) < MaxCalls
    /\ \E block \in SessionBlocks :
          calls' = Append(calls, [fn |-> "parseShellCodeBlock", input |-> block,
                                  outcome |-> parseShellCodeBlock(block)])
    /\ plugins' = pluginsAfterCall(plugins)
    /\ UNCHANGED <<shellVars, mdVars, cliVars, legacyVars>>

\* One call of parseRawMarkdown(rawMarkdown), recorded with its outcome.
CallParseRawMarkdown ==
    /\ Len(calls) < MaxCalls
    /\ \E fm \in SessionFrontmatters, tokens \in SessionDocuments :
          calls' = Append(calls, [fn |-> "parseRawMarkdown", input |-> <<fm, tokens>>,
                                  outcome |-> parseRawMarkdown(fm, tokens)])
    /\ plugins' = pluginsAfterCall(plugins)
    /\ UNCHANGED <<shellVars, mdVars, cliVars, legacyVars>>

SessionNext == CallParseShellCodeBlock \/ CallParseRawMarkdown

SessionSpec == SessionInit /\ [][SessionNext]_vars

=============================================================================
